---- MODULE Spec2Model ----
(***************************************************************************)
(* A model of the track binding set (track_local_static.go) and of the    *)
(* MediaEngine codec registry of pion/webrtc.                              *)
(*                                                                         *)
(* SpecTrack  : one local track, a TrackLocalStaticRTP or a                *)
(*              TrackLocalStaticSample wrapping one, and the calls made on *)
(*              it (Bind, Unbind, WriteRTP, Write, WriteSample).           *)
(* SpecEngine : one MediaEngine and the calls made on it.                  *)
(* SpecExt    : one MediaEngine and the calls on its header extensions.    *)
(* SpecConc   : one local track called from two goroutines.                *)
(*                                                                         *)
(* In SpecTrack, SpecEngine and SpecExt every call is one atomic step.     *)
(* The variable `last` records the call that produced the current state:   *)
(* its name, its arguments, what it returned and what the write sinks      *)
(* observed during it.  In SpecConc a call is a sequence of steps, one for *)
(* each read or write of the state the goroutines share, and the binding   *)
(* list is held as Go holds it, a slice header and backing arrays;         *)
(* `bindings` is then the sequence of elements the slice holds.            *)
(***************************************************************************)
EXTENDS Integers, Sequences, FiniteSets, TLC

VARIABLES
    flavour,          \* which constructor built the track under test
    codec,            \* TrackLocalStaticRTP.codec (fixed at construction)
    bindings,         \* TrackLocalStaticRTP.bindings
    packetizer,       \* TrackLocalStaticSample.packetizer (atomic.Value)
    negotiatedVideo,  \* MediaEngine.negotiatedVideo
    negotiatedAudio,  \* MediaEngine.negotiatedAudio
    videoCodecs,      \* MediaEngine.videoCodecs
    audioCodecs,      \* MediaEngine.audioCodecs
    headerExtensions, \* MediaEngine.headerExtensions
    updated,          \* history: updateFromRemoteDescription has been called
    last,             \* the call that produced this state
    slice,            \* SpecConc: the slice header held in s.bindings
    heap,             \* SpecConc: the backing arrays of trackBinding slices
    procs,            \* SpecConc: where each goroutine is in its call
    phase,            \* SpecConc: "setup", "race" or "panicked"
    before,           \* history: the track when the race started
    stable            \* history: the bindings held all through a WriteRTP

trackVars  == <<flavour, codec, bindings, packetizer>>
engineVars == <<negotiatedVideo, negotiatedAudio, videoCodecs, audioCodecs,
                headerExtensions, updated>>
concVars   == <<slice, heap, procs, phase, before, stable>>
vars       == <<flavour, codec, bindings, packetizer, negotiatedVideo,
                negotiatedAudio, videoCodecs, audioCodecs, headerExtensions,
                updated, last, slice, heap, procs, phase, before, stable>>

-----------------------------------------------------------------------------
(* Bounds of the model.                                                    *)

MaxBindings == 3   \* longest binding list a Bind may produce
MaxPackets  == 2   \* most packets a packetizer returns for one sample
MaxCodecs   == 2   \* registrations are accepted while fewer codecs are held
MaxSections == 2   \* most media sections of a remote description
MaxHeld     == 2   \* SpecConc: longest list a Bind running alone may produce

-----------------------------------------------------------------------------
(* Errors.  A Go error value is a record; nil is the record Nil.           *)

Nil                    == [kind |-> "nil"]
ErrUnsupportedCodec    == [kind |-> "ErrUnsupportedCodec"]
ErrUnbindFailed        == [kind |-> "ErrUnbindFailed"]
ErrNoPayloaderForCodec == [kind |-> "ErrNoPayloaderForCodec"]
ErrUnknownType         == [kind |-> "ErrUnknownType"]
ErrCodecNotFound       == [kind |-> "ErrCodecNotFound"]
ErrUnmarshal           == [kind |-> "errUnmarshal"]

\* The error the write sink `w` returns when a write on it fails.
SinkErr(w) == [kind |-> "errWriteStream", writeStream |-> w]

\* util.FlattenErrs: nil for no errors, otherwise one error wrapping them all.
FlattenErrs(errs) ==
    IF errs = <<>> THEN Nil ELSE [kind |-> "multiError", errs |-> errs]

-----------------------------------------------------------------------------
(* Mime types.                                                             *)

mimeTypeH264 == "video/h264"
mimeTypeOpus == "audio/opus"
mimeTypeVP8  == "video/vp8"
mimeTypeVP9  == "video/vp9"
mimeTypeG722 == "audio/G722"
mimeTypePCMU == "audio/PCMU"
mimeTypePCMA == "audio/PCMA"
mimeTypeRTX  == "video/rtx"

Min(S) == CHOOSE x \in S : \A y \in S : x <= y

-----------------------------------------------------------------------------
(* Inputs of the track calls.                                              *)

\* The write streams of the connections the track may feed, and the SSRC
\* each connection assigned to the track.
Sinks == {"w1", "w2"}
SSRCOf(w) == IF w = "w1" THEN 1001 ELSE 1002

\* An RTPCodecParameters as a TrackLocalContext carries it.
CodecParam(mime, pt) == [MimeType |-> mime, PayloadType |-> pt]

\* The codec lists a TrackLocalContext may carry: none, one holding vp8 and
\* rtx, and one holding vp8 twice (under two payload types) after opus.
CodecLists ==
    { <<>>,
      <<CodecParam(mimeTypeVP8, 96), CodecParam(mimeTypeRTX, 97)>>,
      <<CodecParam(mimeTypeOpus, 111), CodecParam(mimeTypeVP8, 98),
        CodecParam(mimeTypeVP8, 96)>> }

\* TrackLocalContext: CodecParameters(), SSRC() and WriteStream().  A
\* connection hands the track its write stream and its SSRC with any of the
\* codec lists.
Contexts ==
    { [codecs |-> l, ssrc |-> SSRCOf(w), writeStream |-> w] :
        l \in CodecLists, w \in Sinks }

\* The codec a track is constructed with: one with a payloader (vp8) and
\* one without (rtx).
TrackCodecs ==
    { [MimeType |-> mimeTypeVP8, ClockRate |-> 90000],
      [MimeType |-> mimeTypeRTX, ClockRate |-> 90000] }

\* The rtp.Packet handed to WriteRTP; its header fields are overwritten.
Packets == { [Header |-> [SSRC |-> 0, PayloadType |-> 0], Payload |-> "payload"] }

\* The byte buffers handed to Write: one that does not unmarshal, and the
\* marshalled form of each packet.
Buffers == { [ok |-> FALSE] } \cup { [ok |-> TRUE, packet |-> p] : p \in Packets }

-----------------------------------------------------------------------------
(* TrackLocalStaticRTP.                                                    *)

\* Bind as it would be if the last codec of the context with the track's
\* mime type gave the payload type.
Bind_LastMatch(bs, c, t) ==
    LET matches == { i \in 1..Len(t.codecs) : t.codecs[i].MimeType = c.MimeType }
        pick    == CHOOSE i \in matches : \A j \in matches : j <= i
    IN  IF matches = {}
        THEN [bindings |-> bs, err |-> ErrUnsupportedCodec]
        ELSE [bindings |-> Append(bs, [ssrc        |-> t.ssrc,
                                       payloadType |-> t.codecs[pick].PayloadType,
                                       writeStream |-> t.writeStream]),
              err |-> Nil]

\* Bind: the first codec of the context with the track's mime type gives
\* the binding; none gives ErrUnsupportedCodec.
TrackLocalStaticRTP_Bind(bs, c, t) ==
    LET matches == { i \in 1..Len(t.codecs) : t.codecs[i].MimeType = c.MimeType }
    IN  IF matches = {}
        THEN [bindings |-> bs, err |-> ErrUnsupportedCodec]
        ELSE [bindings |-> Append(bs, [ssrc        |-> t.ssrc,
                                       payloadType |-> t.codecs[Min(matches)].PayloadType,
                                       writeStream |-> t.writeStream]),
              err |-> Nil]

\* Unbind as it would be if it truncated the list without first moving the
\* last binding into the place of the one found.
Unbind_DropLast(bs, t) ==
    LET found == { i \in 1..Len(bs) : bs[i].writeStream = t.writeStream }
    IN  IF found = {}
        THEN [bindings |-> bs, err |-> ErrUnbindFailed]
        ELSE [bindings |-> SubSeq(bs, 1, Len(bs) - 1), err |-> Nil]

\* Unbind: the first binding with the context's write stream is overwritten
\* by the last one and the list is truncated by one.
TrackLocalStaticRTP_Unbind(bs, t) ==
    LET found == { i \in 1..Len(bs) : bs[i].writeStream = t.writeStream }
    IN  IF found = {}
        THEN [bindings |-> bs, err |-> ErrUnbindFailed]
        ELSE [bindings |-> SubSeq([bs EXCEPT ![Min(found)] = bs[Len(bs)]],
                                  1, Len(bs) - 1),
              err |-> Nil]

\* The loop of WriteRTP from binding i on.  fails is the set of write streams
\* that return an error for this packet.  log collects what each write
\* stream was handed and what it returned.
RECURSIVE WriteRTPLoop(_, _, _, _, _, _)
WriteRTPLoop(bs, p, fails, i, writeErrs, log) ==
    IF i > Len(bs)
    THEN [err |-> FlattenErrs(writeErrs), log |-> log]
    ELSE LET b   == bs[i]
             p2  == [p EXCEPT !.Header.SSRC = b.ssrc,
                              !.Header.PayloadType = b.payloadType]
             err == IF b.writeStream \in fails THEN SinkErr(b.writeStream) ELSE Nil
         IN  WriteRTPLoop(bs, p2, fails, i + 1,
                          IF err # Nil THEN Append(writeErrs, err) ELSE writeErrs,
                          Append(log, [writeStream |-> b.writeStream,
                                       header      |-> p2.Header,
                                       payload     |-> p2.Payload,
                                       err         |-> err]))

\* WriteRTP as it would be if it returned at the first failed write.
RECURSIVE WriteRTPLoop_FailFast(_, _, _, _, _)
WriteRTPLoop_FailFast(bs, p, fails, i, log) ==
    IF i > Len(bs)
    THEN [err |-> Nil, log |-> log]
    ELSE LET b   == bs[i]
             p2  == [p EXCEPT !.Header.SSRC = b.ssrc,
                              !.Header.PayloadType = b.payloadType]
             err == IF b.writeStream \in fails THEN SinkErr(b.writeStream) ELSE Nil
             log2 == Append(log, [writeStream |-> b.writeStream,
                                  header      |-> p2.Header,
                                  payload     |-> p2.Payload,
                                  err         |-> err])
         IN  IF err # Nil
             THEN [err |-> FlattenErrs(<<err>>), log |-> log2]
             ELSE WriteRTPLoop_FailFast(bs, p2, fails, i + 1, log2)

WriteRTP_FailFast(bs, p, fails) ==
    WriteRTPLoop_FailFast(bs, p, fails, 1, <<>>)

\* WriteRTP as it would be if each failure replaced the collected errors
\* instead of being appended to them.
RECURSIVE WriteRTPLoop_LastErr(_, _, _, _, _, _)
WriteRTPLoop_LastErr(bs, p, fails, i, writeErrs, log) ==
    IF i > Len(bs)
    THEN [err |-> FlattenErrs(writeErrs), log |-> log]
    ELSE LET b   == bs[i]
             p2  == [p EXCEPT !.Header.SSRC = b.ssrc,
                              !.Header.PayloadType = b.payloadType]
             err == IF b.writeStream \in fails THEN SinkErr(b.writeStream) ELSE Nil
         IN  WriteRTPLoop_LastErr(bs, p2, fails, i + 1,
                          IF err # Nil THEN <<err>> ELSE writeErrs,
                          Append(log, [writeStream |-> b.writeStream,
                                       header      |-> p2.Header,
                                       payload     |-> p2.Payload,
                                       err         |-> err]))

WriteRTP_LastErr(bs, p, fails) ==
    WriteRTPLoop_LastErr(bs, p, fails, 1, <<>>, <<>>)

TrackLocalStaticRTP_WriteRTP(bs, p, fails) ==
    WriteRTPLoop(bs, p, fails, 1, <<>>, <<>>)

\* Write: unmarshal the buffer, then WriteRTP.
TrackLocalStaticRTP_Write(bs, b, fails) ==
    IF ~b.ok
    THEN [n |-> 0, err |-> ErrUnmarshal, log |-> <<>>]
    ELSE LET r == TrackLocalStaticRTP_WriteRTP(bs, b.packet, fails)
         IN  [n |-> 1, err |-> r.err, log |-> r.log]

-----------------------------------------------------------------------------
(* TrackLocalStaticSample.                                                 *)

NoPacketizer == [kind |-> "nil"]

rtpOutboundMTU == 1200

\* The payloader Bind selects for a mime type, Nil when it has none.
PayloaderFor(mime) ==
    CASE mime = mimeTypeH264 -> [kind |-> "H264Payloader"]
      [] mime = mimeTypeOpus -> [kind |-> "OpusPayloader"]
      [] mime = mimeTypeVP8  -> [kind |-> "VP8Payloader"]
      [] mime = mimeTypeVP9  -> [kind |-> "VP9Payloader"]
      [] mime = mimeTypeG722 -> [kind |-> "G722Payloader"]
      [] mime \in {mimeTypePCMU, mimeTypePCMA} -> [kind |-> "G711Payloader"]
      [] OTHER -> Nil

\* rtp.NewRandomSequencer(): the sequence number a new sequencer starts
\* from is random; the least and the greatest 16-bit number stand for it.
\* Where no two calls overlap nothing tells one packetizer from the next,
\* and SpecTrack takes the least.
Sequencers == {0, 65535}

\* rtp.NewPacketizer(mtu, 0, 0, payloader, sequencer, clockRate)
NewPacketizer(mtu, payloader, sequencer, clockRate) ==
    [kind |-> "Packetizer", mtu |-> mtu, payloader |-> payloader,
     sequencer |-> sequencer, clockRate |-> clockRate]

\* Bind of the sample track as it would be if it stored the packetizer
\* before it looked at the result of the wrapped Bind.
SampleBind_StoreFirst(bs, pk, c, t, seq) ==
    LET first == TrackLocalStaticRTP_Bind(bs, c, t)
        payloader == PayloaderFor(c.MimeType)
        stored == IF payloader = Nil THEN pk
                  ELSE NewPacketizer(rtpOutboundMTU, payloader, seq, c.ClockRate)
    IN  IF first.err # Nil
        THEN [bindings |-> first.bindings, packetizer |-> stored, err |-> first.err]
        ELSE IF payloader = Nil
        THEN [bindings |-> first.bindings, packetizer |-> stored,
              err |-> ErrNoPayloaderForCodec]
        ELSE LET second == TrackLocalStaticRTP_Bind(first.bindings, c, t)
             IN  [bindings |-> second.bindings, packetizer |-> stored,
                  err |-> second.err]

\* Bind of the sample track as it would be if it ran the payloader switch
\* before the wrapped Bind.
SampleBind_PayloaderFirst(bs, pk, c, t, seq) ==
    LET payloader == PayloaderFor(c.MimeType)
        first == TrackLocalStaticRTP_Bind(bs, c, t)
    IN  IF payloader = Nil
        THEN [bindings |-> bs, packetizer |-> pk, err |-> ErrNoPayloaderForCodec]
        ELSE IF first.err # Nil
        THEN [bindings |-> first.bindings, packetizer |-> pk, err |-> first.err]
        ELSE LET second == TrackLocalStaticRTP_Bind(first.bindings, c, t)
             IN  [bindings   |-> second.bindings,
                  packetizer |-> NewPacketizer(rtpOutboundMTU, payloader, seq, c.ClockRate),
                  err        |-> second.err]

\* Bind of the sample track: the wrapped Bind, the payloader switch, the
\* store of a new packetizer (whose sequencer starts from seq), and the
\* wrapped Bind once more.
TrackLocalStaticSample_Bind(bs, pk, c, t, seq) ==
    LET first == TrackLocalStaticRTP_Bind(bs, c, t)
        payloader == PayloaderFor(c.MimeType)
    IN  IF first.err # Nil
        THEN [bindings |-> first.bindings, packetizer |-> pk, err |-> first.err]
        ELSE IF payloader = Nil
        THEN [bindings |-> first.bindings, packetizer |-> pk,
              err |-> ErrNoPayloaderForCodec]
        ELSE LET second == TrackLocalStaticRTP_Bind(first.bindings, c, t)
             IN  [bindings   |-> second.bindings,
                  packetizer |-> NewPacketizer(rtpOutboundMTU, payloader, seq, c.ClockRate),
                  err        |-> second.err]

TrackLocalStaticSample_Unbind(bs, t) == TrackLocalStaticRTP_Unbind(bs, t)

\* The packets the packetizer returns for a sample: Packetize belongs to
\* pion/rtp; the sample says how many packets its data fragments into.  The
\* tick count handed to Packetize only sets time stamps inside pion/rtp and
\* is left out.  The packets carry the sequence numbers (16 bits wide) the
\* packetizer's sequencer hands out from its start; its advance from one
\* call to the next is left out.
Packetize(pk, sample) ==
    [k \in 1..sample.fragments |->
        [Header |-> [SSRC |-> 0, PayloadType |-> 0,
                     SequenceNumber |-> (pk.sequencer + k - 1) % 65536],
         Payload |-> k]]

\* The loop of WriteSample over the packets from packet k on.  fails[k] is
\* the set of write streams that fail for packet k.
RECURSIVE WriteSampleLoop(_, _, _, _, _, _)
WriteSampleLoop(bs, packets, fails, k, writeErrs, log) ==
    IF k > Len(packets)
    THEN [err |-> FlattenErrs(writeErrs), log |-> log]
    ELSE LET r == TrackLocalStaticRTP_WriteRTP(bs, packets[k], fails[k])
         IN  WriteSampleLoop(bs, packets, fails, k + 1,
                             IF r.err # Nil THEN Append(writeErrs, r.err) ELSE writeErrs,
                             log \o r.log)

\* WriteSample as it would be if it returned at the first packet whose
\* WriteRTP failed.
RECURSIVE WriteSampleLoop_FailFast(_, _, _, _, _)
WriteSampleLoop_FailFast(bs, packets, fails, k, log) ==
    IF k > Len(packets)
    THEN [err |-> Nil, log |-> log]
    ELSE LET r == TrackLocalStaticRTP_WriteRTP(bs, packets[k], fails[k])
         IN  IF r.err # Nil
             THEN [err |-> FlattenErrs(<<r.err>>), log |-> log \o r.log]
             ELSE WriteSampleLoop_FailFast(bs, packets, fails, k + 1, log \o r.log)

WriteSample_FailFast(bs, pk, sample, fails) ==
    IF pk = NoPacketizer
    THEN [err |-> Nil, log |-> <<>>]
    ELSE WriteSampleLoop_FailFast(bs, Packetize(pk, sample), fails, 1, <<>>)

TrackLocalStaticSample_WriteSample(bs, pk, sample, fails) ==
    IF pk = NoPacketizer
    THEN [err |-> Nil, log |-> <<>>]
    ELSE WriteSampleLoop(bs, Packetize(pk, sample), fails, 1, <<>>, <<>>)

\* The media.Sample inputs: the number of packets the data fragments into.
Samples == [fragments : 0..MaxPackets]

-----------------------------------------------------------------------------
(* The calls on the track under test.                                      *)

StaticRTP    == "TrackLocalStaticRTP"
StaticSample == "TrackLocalStaticSample"

\* The record of a call: its name, its argument, the failing write streams
\* chosen for it, the error it returned, what the sinks were handed, and the length
\* of the binding list when it was made.
Call(op, arg, fails, err, log) ==
    [op |-> op, arg |-> arg, fails |-> fails, err |-> err, log |-> log,
     size |-> Len(bindings)]

\* The outcomes of the write streams for one packet: those that fail.
Outcomes == SUBSET Sinks

\* The outcomes for one packet of a sample: no write stream fails, or the
\* first one does.
SampleOutcomes == { {}, {"w1"} }

\* NewTrackLocalStaticRTP and NewTrackLocalStaticSample
TrackInit ==
    /\ flavour \in {StaticRTP, StaticSample}
    /\ codec \in TrackCodecs
    /\ bindings = <<>>
    /\ packetizer = NoPacketizer

CallRTPBind(t) ==
    /\ flavour = StaticRTP
    /\ Len(bindings) < MaxBindings
    /\ LET r == TrackLocalStaticRTP_Bind(bindings, codec, t)
       IN  /\ bindings' = r.bindings
           /\ last' = Call("Bind", t, <<>>, r.err, <<>>)
    /\ UNCHANGED <<flavour, codec, packetizer, engineVars>>
    /\ UNCHANGED concVars

CallRTPUnbind(t) ==
    /\ flavour = StaticRTP
    /\ LET r == TrackLocalStaticRTP_Unbind(bindings, t)
       IN  /\ bindings' = r.bindings
           /\ last' = Call("Unbind", t, <<>>, r.err, <<>>)
    /\ UNCHANGED <<flavour, codec, packetizer, engineVars>>
    /\ UNCHANGED concVars

CallRTPWriteRTP(p, fails) ==
    /\ flavour = StaticRTP
    /\ LET r == TrackLocalStaticRTP_WriteRTP(bindings, p, fails)
       IN  last' = Call("WriteRTP", p, fails, r.err, r.log)
    /\ UNCHANGED <<trackVars, engineVars>>
    /\ UNCHANGED concVars

CallRTPWrite(b, fails) ==
    /\ flavour = StaticRTP
    /\ LET r == TrackLocalStaticRTP_Write(bindings, b, fails)
       IN  last' = Call("Write", b, fails, r.err, r.log)
    /\ UNCHANGED <<trackVars, engineVars>>
    /\ UNCHANGED concVars

CallSampleBind(t, seq) ==
    /\ flavour = StaticSample
    /\ Len(bindings) + 2 <= MaxBindings
    /\ LET r == TrackLocalStaticSample_Bind(bindings, packetizer, codec, t, seq)
       IN  /\ bindings' = r.bindings
           /\ packetizer' = r.packetizer
           /\ last' = Call("Bind", t, <<>>, r.err, <<>>)
    /\ UNCHANGED <<flavour, codec, engineVars>>
    /\ UNCHANGED concVars

CallSampleUnbind(t) ==
    /\ flavour = StaticSample
    /\ LET r == TrackLocalStaticSample_Unbind(bindings, t)
       IN  /\ bindings' = r.bindings
           /\ last' = Call("Unbind", t, <<>>, r.err, <<>>)
    /\ UNCHANGED <<flavour, codec, packetizer, engineVars>>
    /\ UNCHANGED concVars

CallSampleWriteSample(sample, fails) ==
    /\ flavour = StaticSample
    /\ LET r == TrackLocalStaticSample_WriteSample(bindings, packetizer, sample, fails)
       IN  last' = Call("WriteSample", sample, fails, r.err, r.log)
    /\ UNCHANGED <<trackVars, engineVars>>
    /\ UNCHANGED concVars

NextTrack ==
    \/ \E t \in Contexts : CallRTPBind(t)
    \/ \E t \in Contexts : CallRTPUnbind(t)
    \/ \E p \in Packets, fails \in Outcomes : CallRTPWriteRTP(p, fails)
    \/ \E b \in Buffers, fails \in Outcomes : CallRTPWrite(b, fails)
    \/ \E t \in Contexts : CallSampleBind(t, Min(Sequencers))
    \/ \E t \in Contexts : CallSampleUnbind(t)
    \/ \E sample \in Samples :
          \E fails \in [1..sample.fragments -> SampleOutcomes] :
             CallSampleWriteSample(sample, fails)

-----------------------------------------------------------------------------
(* Calls that overlap: the track as two goroutines see it.                 *)

\* The goroutines that call the track; the first one makes the calls that
\* come before the race.
Procs     == {"g1", "g2"}
SetupProc == "g1"

\* The backing arrays a program of Procs can hold at once: the one of
\* s.bindings, one for each other goroutine, and the one being allocated.
ArrayIds == 1..(Cardinality(Procs) + 1)

\* trackBinding{}: what an array element holds before it is written.
NoBinding == [ssrc |-> 0, payloadType |-> 0, writeStream |-> "nil"]

\* []trackBinding{}: the slice NewTrackLocalStaticRTP stores, of no array.
EmptySlice == [arr |-> 0, len |-> 0]

\* cap(h) and the elements of the slice h over the arrays hp.
Cap(h, hp)   == IF h.arr = 0 THEN 0 ELSE Len(hp[h.arr])
Elems(h, hp) == IF h.arr = 0 THEN <<>> ELSE SubSeq(hp[h.arr], 1, h.len)

\* The capacity append grows a full slice of capacity c to.
GrowCap(c) == IF c = 0 THEN 1 ELSE 2 * c

\* append(h, b): written in place when the array has room, and otherwise
\* into a new array that the elements of h are copied to.
GoAppend(h, hp, b) ==
    IF h.len < Cap(h, hp)
    THEN [hdr  |-> [arr |-> h.arr, len |-> h.len + 1],
          heap |-> [hp EXCEPT ![h.arr][h.len + 1] = b]]
    ELSE LET a   == Min({ x \in ArrayIds : hp[x] = <<>> })
             old == Elems(h, hp)
         IN  [hdr  |-> [arr |-> a, len |-> h.len + 1],
              heap |-> [hp EXCEPT ![a] =
                          [i \in 1..GrowCap(Cap(h, hp)) |->
                              IF i <= h.len THEN old[i]
                              ELSE IF i = h.len + 1 THEN b ELSE NoBinding]]]

\* The garbage collector: an array that neither s.bindings nor a goroutine
\* refers to is gone.
Collect(hp, sl, ps) ==
    [a \in ArrayIds |->
        IF a = sl.arr \/ \E g \in Procs : ps[g].hdr.arr = a THEN hp[a] ELSE <<>>]

\* The error of a goroutine stopped by a run-time panic (index or slice
\* bounds out of range).
ErrPanic == [kind |-> "panic"]

\* A goroutine that has made no call: pc is where it is in its call, hdr
\* the slice header it holds, i and n its loop index and bound, p the
\* packetizer it loaded, packets and k the packets of its sample and the
\* one being written, errs and pktErrs the errors collected by WriteRTP
\* and by WriteSample, fails the write streams that fail during its call,
\* log what it handed to the write streams.
Idle ==
    [pc |-> "idle", op |-> "none", arg |-> <<>>, fails |-> {}, hdr |-> EmptySlice,
     i |-> 0, n |-> 0, p |-> NoPacketizer, packets |-> <<>>, k |-> 0,
     errs |-> <<>>, pktErrs |-> <<>>, log |-> <<>>, err |-> Nil]

\* The goroutine r after its call returned err: its locals are gone; what
\* it was called with, what it loaded and what it wrote are kept.
Returned(r, err) ==
    [r EXCEPT !.pc = "done", !.err = err, !.hdr = EmptySlice, !.i = 0,
              !.n = 0, !.k = 0, !.errs = <<>>, !.pktErrs = <<>>]

Range(seq) == { seq[i] : i \in 1..Len(seq) }

\* The contexts of the calls that overlap: each write stream with the codec
\* list that holds vp8 and rtx, and for Bind also with the empty one.
ConcContexts   == { t \in Contexts : Len(t.codecs) \in {0, 2} }
UnbindContexts == { t \in Contexts : Len(t.codecs) = 2 }

\* The write streams that fail during a call that overlaps another: none,
\* or the first one.
ConcOutcomes == SampleOutcomes

\* The packetizer WriteSample packetizes with at line 197: the one it
\* loaded at line 191, whatever the slot holds by then.
PacketizerInUse_Reload(loaded, slot) == slot

PacketizerInUse(loaded, slot) == loaded

ConcInit ==
    /\ slice = EmptySlice
    /\ heap = [a \in ArrayIds |-> <<>>]
    /\ procs = [g \in Procs |-> Idle]
    /\ phase = "setup"
    /\ before = [bindings |-> <<>>, packetizer |-> NoPacketizer]
    /\ stable = [g \in Procs |-> {}]

Running(g) == procs[g].pc \notin {"idle", "done"}

\* g may make a call: before the race the first goroutine, one call after
\* the other; in the race every goroutine, once.
CanCall(g) ==
    \/ phase = "race" /\ procs[g].pc = "idle"
    \/ phase = "setup" /\ g = SetupProc /\ ~Running(g)

\* g is at pc in a program that has not panicked.
At(g, pcs) == phase # "panicked" /\ procs[g].pc \in pcs

\* One step of g: its new record, the new s.bindings, the arrays as the
\* step leaves them, the new packetizer slot and the new phase.
Step(g, r, sl, hp, pk, ph) ==
    /\ procs' = [procs EXCEPT ![g] = r]
    /\ slice' = sl
    /\ heap' = Collect(hp, sl, procs')
    /\ packetizer' = pk
    /\ phase' = ph
    /\ bindings' = Elems(slice', heap')
    /\ stable' = [q \in Procs |->
                    IF procs'[q].op = "WriteRTP" /\ procs[q].pc # "done"
                    THEN IF procs[q].pc = "idle"
                         THEN Range(bindings')
                         ELSE stable[q] \cap Range(bindings')
                    ELSE stable[q]]
    /\ UNCHANGED <<flavour, codec, engineVars, last, before>>

\* A step of g that stops the program with a panic.
Panic(g) ==
    Step(g, Returned(procs[g], ErrPanic), slice, heap, packetizer, "panicked")

\* Bind is called: the loop over the codecs of the context (44-45, 55).
Bind_call(g, t) ==
    /\ CanCall(g)
    /\ slice.len + (IF flavour = StaticSample THEN 2 ELSE 1) <= MaxHeld
    /\ LET r == TrackLocalStaticRTP_Bind(<<>>, codec, t)
           c == [Idle EXCEPT !.op = "Bind", !.arg = t]
       IN  Step(g, IF r.err # Nil THEN Returned(c, r.err)
                   ELSE [c EXCEPT !.pc = "append"],
                slice, heap, packetizer, phase)

\* The append of line 46: s.bindings is read and the binding is appended
\* to what was read.
Bind_append(g) ==
    /\ At(g, {"append", "append2"})
    /\ LET b == TrackLocalStaticRTP_Bind(<<>>, codec, procs[g].arg).bindings[1]
           r == GoAppend(slice, heap, b)
       IN  Step(g, [procs[g] EXCEPT !.hdr = r.hdr,
                                    !.pc = IF @ = "append" THEN "store" ELSE "store2"],
                slice, r.heap, packetizer, phase)

\* The assignment of line 46: the slice appended to is stored in
\* s.bindings; the raw-packet track's Bind returns.  On a sample track the
\* first wrapped Bind is followed by the payloader switch (151-167).
Bind_store(g) ==
    /\ At(g, {"store", "store2"})
    /\ LET r == procs[g]
       IN  Step(g,
                IF flavour = StaticRTP \/ r.pc = "store2" THEN Returned(r, Nil)
                ELSE IF PayloaderFor(codec.MimeType) = Nil
                THEN Returned(r, ErrNoPayloaderForCodec)
                ELSE [r EXCEPT !.pc = "packetizer", !.hdr = EmptySlice],
                r.hdr, heap, packetizer, phase)

\* s.packetizer.Store of lines 169-176, after which the wrapped Bind is
\* called once more (177).
SampleBind_store(g, seq) ==
    /\ At(g, {"packetizer"})
    /\ LET pk == NewPacketizer(rtpOutboundMTU, PayloaderFor(codec.MimeType),
                               seq, codec.ClockRate)
       IN  Step(g, [procs[g] EXCEPT !.pc = "append2", !.p = pk],
                slice, heap, pk, phase)

\* Unbind is called: the range of line 61 reads len(s.bindings).
Unbind_call(g, t) ==
    /\ CanCall(g)
    /\ Step(g, [Idle EXCEPT !.op = "Unbind", !.arg = t, !.pc = "compare",
                            !.i = 1, !.n = slice.len],
            slice, heap, packetizer, phase)

\* The loop test of line 61 and the comparison of line 62.
Unbind_compare(g) ==
    /\ At(g, {"compare"})
    /\ LET r == procs[g]
       IN  IF r.i > r.n
           THEN Step(g, Returned(r, ErrUnbindFailed), slice, heap, packetizer, phase)
           ELSE IF r.i > slice.len
           THEN Panic(g)
           ELSE Step(g, IF Elems(slice, heap)[r.i].writeStream = r.arg.writeStream
                        THEN [r EXCEPT !.pc = "copy"]
                        ELSE [r EXCEPT !.i = @ + 1],
                     slice, heap, packetizer, phase)

\* Line 63: the last element of s.bindings is written over element i.
Unbind_copy(g) ==
    /\ At(g, {"copy"})
    /\ LET r == procs[g]
       IN  IF slice.len = 0 \/ r.i > slice.len
           THEN Panic(g)
           ELSE Step(g, [r EXCEPT !.pc = "truncate"], slice,
                     [heap EXCEPT ![slice.arr][r.i] = heap[slice.arr][slice.len]],
                     packetizer, phase)

\* Line 64: s.bindings is read and stored one element shorter; Unbind
\* returns.
Unbind_truncate(g) ==
    /\ At(g, {"truncate"})
    /\ IF slice.len = 0
       THEN Panic(g)
       ELSE Step(g, Returned(procs[g], Nil), [slice EXCEPT !.len = @ - 1],
                 heap, packetizer, phase)

\* WriteRTP is called on a raw-packet track.
WriteRTP_call(g, p, fails) ==
    /\ CanCall(g)
    /\ phase = "race"
    /\ flavour = StaticRTP
    /\ Step(g, [Idle EXCEPT !.op = "WriteRTP", !.arg = p, !.fails = fails,
                            !.pc = "range", !.packets = <<p>>, !.k = 1],
            slice, heap, packetizer, phase)

\* The range of line 89: s.bindings is read once, before the first
\* iteration.
WriteRTP_range(g) ==
    /\ At(g, {"range"})
    /\ Step(g, [procs[g] EXCEPT !.pc = "iterate", !.hdr = slice, !.i = 1,
                                !.errs = <<>>],
            slice, heap, packetizer, phase)

\* One iteration of the loop of lines 89-95: element i of the array read
\* by the range is copied, the packet is stamped and written, and the write
\* fails or not.  After the last one WriteRTP returns (97), to its caller
\* or to the loop of WriteSample (199-203), which goes on to the next packet
\* or returns (206).
WriteRTP_iterate(g) ==
    /\ At(g, {"iterate"})
    /\ LET r == procs[g]
       IN  IF r.i > r.hdr.len
           THEN LET e  == FlattenErrs(r.errs)
                    pe == IF e # Nil THEN Append(r.pktErrs, e) ELSE r.pktErrs
                IN  Step(g,
                         IF r.op = "WriteRTP" THEN Returned(r, e)
                         ELSE IF r.k < Len(r.packets)
                         THEN [r EXCEPT !.pc = "range", !.k = @ + 1,
                                        !.pktErrs = pe, !.hdr = EmptySlice]
                         ELSE Returned(r, FlattenErrs(pe)),
                         slice, heap, packetizer, phase)
           ELSE LET b   == heap[r.hdr.arr][r.i]
                    pkt == r.packets[r.k]
                    hd  == [pkt.Header EXCEPT !.SSRC = b.ssrc,
                                              !.PayloadType = b.payloadType]
                    err == IF b.writeStream \in r.fails
                           THEN SinkErr(b.writeStream) ELSE Nil
                IN  Step(g, [r EXCEPT !.i = @ + 1,
                                      !.errs = IF err # Nil THEN Append(@, err) ELSE @,
                                      !.log = Append(@, [writeStream |-> b.writeStream,
                                                         header      |-> hd,
                                                         payload     |-> pkt.Payload,
                                                         err         |-> err])],
                         slice, heap, packetizer, phase)

\* WriteSample is called on a sample track.
WriteSample_call(g, sample, fails) ==
    /\ CanCall(g)
    /\ phase = "race"
    /\ flavour = StaticSample
    /\ Step(g, [Idle EXCEPT !.op = "WriteSample", !.arg = sample,
                            !.fails = fails, !.pc = "load"],
            slice, heap, packetizer, phase)

\* s.packetizer.Load() of line 191 and the nil test of 192-194.
WriteSample_load(g) ==
    /\ At(g, {"load"})
    /\ LET r == [procs[g] EXCEPT !.p = packetizer]
       IN  Step(g, IF r.p = NoPacketizer THEN Returned(r, Nil)
                   ELSE [r EXCEPT !.pc = "packetize"],
                slice, heap, packetizer, phase)

\* Packetize of line 197; with no packet the loop is skipped and
\* WriteSample returns (206).
WriteSample_packetize(g) ==
    /\ At(g, {"packetize"})
    /\ LET r  == procs[g]
           ps == Packetize(PacketizerInUse(r.p, packetizer), r.arg)
       IN  Step(g, IF ps = <<>> THEN Returned(r, FlattenErrs(<<>>))
                   ELSE [r EXCEPT !.pc = "range", !.packets = ps, !.k = 1],
                slice, heap, packetizer, phase)

\* The calls that built the track are over and the race starts: every
\* goroutine may now make one call.
StartRace ==
    /\ phase = "setup"
    /\ \A g \in Procs : ~Running(g)
    /\ procs' = [g \in Procs |-> Idle]
    /\ phase' = "race"
    /\ before' = [bindings |-> bindings, packetizer |-> packetizer]
    /\ UNCHANGED <<flavour, codec, bindings, packetizer, engineVars, last,
                   slice, heap, stable>>

NextConc ==
    \/ \E g \in Procs, t \in ConcContexts : Bind_call(g, t)
    \/ \E g \in Procs : Bind_append(g)
    \/ \E g \in Procs : Bind_store(g)
    \/ \E g \in Procs, seq \in Sequencers : SampleBind_store(g, seq)
    \/ \E g \in Procs, t \in UnbindContexts : Unbind_call(g, t)
    \/ \E g \in Procs : Unbind_compare(g)
    \/ \E g \in Procs : Unbind_copy(g)
    \/ \E g \in Procs : Unbind_truncate(g)
    \/ \E g \in Procs, p \in Packets, fails \in ConcOutcomes :
          WriteRTP_call(g, p, fails)
    \/ \E g \in Procs : WriteRTP_range(g)
    \/ \E g \in Procs : WriteRTP_iterate(g)
    \/ \E g \in Procs, sample \in Samples, fails \in ConcOutcomes :
          WriteSample_call(g, sample, fails)
    \/ \E g \in Procs : WriteSample_load(g)
    \/ \E g \in Procs : WriteSample_packetize(g)
    \/ StartRace

-----------------------------------------------------------------------------
(* MediaEngine: data.                                                      *)

RTPCodecTypeAudio == 1
RTPCodecTypeVideo == 2

\* RTPCodecParameters{RTPCodecCapability{mime, clockRate, channels, fmtp,
\* feedback}, PayloadType}; negotiated is false in a composite literal.
\* statsID, a time stamp read by the stats collector only, is left out.
RTPCodecParameters(mime, clockRate, channels, fmtp, feedback, pt) ==
    [MimeType |-> mime, ClockRate |-> clockRate, Channels |-> channels,
     SDPFmtpLine |-> fmtp, RTCPFeedback |-> feedback, PayloadType |-> pt,
     negotiated |-> FALSE]

videoRTCPFeedback ==
    << <<"goog-remb", "">>, <<"transport-cc", "">>, <<"ccm", "fir">>,
       <<"nack", "">>, <<"nack", "pli">> >>

DefaultAudioCodecs ==
    << RTPCodecParameters(mimeTypeOpus, 48000, 2, "minptime=10;useinbandfec=1",
                          << <<"transport-cc", "">> >>, 111),
       RTPCodecParameters(mimeTypeG722, 8000, 0, "", <<>>, 9),
       RTPCodecParameters(mimeTypePCMU, 8000, 0, "", <<>>, 0),
       RTPCodecParameters(mimeTypePCMA, 8000, 0, "", <<>>, 8) >>

DefaultAudioExtensions ==
    << "urn:ietf:params:rtp-hdrext:ssrc-audio-level",
       "http://www.webrtc.org/experiments/rtp-hdrext/abs-send-time",
       "http://www.ietf.org/id/draft-holmer-rmcat-transport-wide-cc-extensions-01",
       "urn:ietf:params:rtp-hdrext:sdes:mid",
       "urn:ietf:params:rtp-hdrext:sdes:rtp-stream-id",
       "urn:ietf:params:rtp-hdrext:sdes:repaired-rtp-stream-id" >>

DefaultVideoCodecs ==
    << RTPCodecParameters(mimeTypeVP8, 90000, 0, "", videoRTCPFeedback, 96),
       RTPCodecParameters(mimeTypeRTX, 90000, 0, "apt=96", <<>>, 97),
       RTPCodecParameters(mimeTypeVP9, 90000, 0, "profile-id=0", videoRTCPFeedback, 98),
       RTPCodecParameters(mimeTypeRTX, 90000, 0, "apt=98", <<>>, 99),
       RTPCodecParameters(mimeTypeVP9, 90000, 0, "profile-id=1", videoRTCPFeedback, 100),
       RTPCodecParameters(mimeTypeRTX, 90000, 0, "apt=100", <<>>, 101),
       RTPCodecParameters(mimeTypeH264, 90000, 0,
           "level-asymmetry-allowed=1;packetization-mode=1;profile-level-id=42001f",
           videoRTCPFeedback, 102),
       RTPCodecParameters(mimeTypeRTX, 90000, 0, "apt=102", <<>>, 121),
       RTPCodecParameters(mimeTypeH264, 90000, 0,
           "level-asymmetry-allowed=1;packetization-mode=0;profile-level-id=42001f",
           videoRTCPFeedback, 127),
       RTPCodecParameters(mimeTypeRTX, 90000, 0, "apt=127", <<>>, 120),
       RTPCodecParameters(mimeTypeH264, 90000, 0,
           "level-asymmetry-allowed=1;packetization-mode=1;profile-level-id=42e01f",
           videoRTCPFeedback, 125),
       RTPCodecParameters(mimeTypeRTX, 90000, 0, "apt=125", <<>>, 107),
       RTPCodecParameters(mimeTypeH264, 90000, 0,
           "level-asymmetry-allowed=1;packetization-mode=0;profile-level-id=42e01f",
           videoRTCPFeedback, 108),
       RTPCodecParameters(mimeTypeRTX, 90000, 0, "apt=108", <<>>, 109),
       RTPCodecParameters(mimeTypeH264, 90000, 0,
           "level-asymmetry-allowed=1;packetization-mode=0;profile-level-id=42001f",
           videoRTCPFeedback, 127),
       RTPCodecParameters(mimeTypeRTX, 90000, 0, "apt=127", <<>>, 120),
       RTPCodecParameters(mimeTypeH264, 90000, 0,
           "level-asymmetry-allowed=1;packetization-mode=1;profile-level-id=640032",
           videoRTCPFeedback, 123),
       RTPCodecParameters(mimeTypeRTX, 90000, 0, "apt=123", <<>>, 118),
       RTPCodecParameters("video/ulpfec", 90000, 0, "", <<>>, 116) >>

DefaultVideoExtensions ==
    << "urn:ietf:params:rtp-hdrext:toffset",
       "http://www.webrtc.org/experiments/rtp-hdrext/abs-send-time",
       "urn:3gpp:video-orientation",
       "http://www.ietf.org/id/draft-holmer-rmcat-transport-wide-cc-extensions-01",
       "http://www.webrtc.org/experiments/rtp-hdrext/playout-delay",
       "http://www.webrtc.org/experiments/rtp-hdrext/video-content-type",
       "http://www.webrtc.org/experiments/rtp-hdrext/video-timing",
       "http://www.webrtc.org/experiments/rtp-hdrext/color-space",
       "urn:ietf:params:rtp-hdrext:sdes:mid",
       "urn:ietf:params:rtp-hdrext:sdes:rtp-stream-id",
       "urn:ietf:params:rtp-hdrext:sdes:repaired-rtp-stream-id" >>

-----------------------------------------------------------------------------
(* MediaEngine: operations.  An engine value m is the record of its        *)
(* fields.                                                                 *)

Engine ==
    [negotiatedVideo |-> negotiatedVideo, negotiatedAudio |-> negotiatedAudio,
     videoCodecs |-> videoCodecs, audioCodecs |-> audioCodecs,
     headerExtensions |-> headerExtensions]

\* MediaEngine{}
ZeroEngine ==
    [negotiatedVideo |-> FALSE, negotiatedAudio |-> FALSE,
     videoCodecs |-> <<>>, audioCodecs |-> <<>>, headerExtensions |-> <<>>]

\* RegisterCodec as it would be if it put the codec at the head of the
\* catalog.
RegisterCodec_Prepend(m, c, typ) ==
    CASE typ = RTPCodecTypeAudio ->
            [m |-> [m EXCEPT !.audioCodecs = <<c>> \o @], err |-> Nil]
      [] typ = RTPCodecTypeVideo ->
            [m |-> [m EXCEPT !.videoCodecs = <<c>> \o @], err |-> Nil]
      [] OTHER -> [m |-> m, err |-> ErrUnknownType]

\* RegisterCodec: append to the catalog of the kind, or ErrUnknownType.
RegisterCodec(m, c, typ) ==
    CASE typ = RTPCodecTypeAudio ->
            [m |-> [m EXCEPT !.audioCodecs = Append(@, c)], err |-> Nil]
      [] typ = RTPCodecTypeVideo ->
            [m |-> [m EXCEPT !.videoCodecs = Append(@, c)], err |-> Nil]
      [] OTHER -> [m |-> m, err |-> ErrUnknownType]

\* RegisterHeaderExtension as it would be if it wrote the index of the last
\* entry of the catalog as the id, whichever entry it found.
RegisterHeaderExtension_IdFromLength(m, uri, typ) ==
    LET exts  == m.headerExtensions
        found == { i \in 1..Len(exts) : exts[i].uri = uri }
        grown == IF found = {}
                 THEN Append(exts, [ok |-> FALSE, id |-> 0, uri |-> "",
                                    isAudio |-> FALSE, isVideo |-> FALSE])
                 ELSE exts
        index == IF found = {} THEN Len(grown)
                 ELSE CHOOSE i \in found : \A j \in found : j <= i
        e     == grown[index]
        e2    == [e EXCEPT !.isAudio = IF typ = RTPCodecTypeAudio THEN TRUE ELSE @,
                           !.isVideo = IF typ = RTPCodecTypeVideo THEN TRUE ELSE @,
                           !.uri = uri,
                           !.id = Len(grown) - 1]
    IN  [m |-> [m EXCEPT !.headerExtensions = [grown EXCEPT ![index] = e2]],
         err |-> Nil]

\* RegisterHeaderExtension: the last entry with the URI, or a new entry at
\* the end; the kind flag is set and the entry's uri and id (its index,
\* counted from 0) are written.
RegisterHeaderExtension(m, uri, typ) ==
    LET exts  == m.headerExtensions
        found == { i \in 1..Len(exts) : exts[i].uri = uri }
        grown == IF found = {}
                 THEN Append(exts, [ok |-> FALSE, id |-> 0, uri |-> "",
                                    isAudio |-> FALSE, isVideo |-> FALSE])
                 ELSE exts
        index == IF found = {} THEN Len(grown)
                 ELSE CHOOSE i \in found : \A j \in found : j <= i
        e     == grown[index]
        e2    == [e EXCEPT !.isAudio = IF typ = RTPCodecTypeAudio THEN TRUE ELSE @,
                           !.isVideo = IF typ = RTPCodecTypeVideo THEN TRUE ELSE @,
                           !.uri = uri,
                           !.id = index - 1]
    IN  [m |-> [m EXCEPT !.headerExtensions = [grown EXCEPT ![index] = e2]],
         err |-> Nil]

\* GetHeaderExtensionID: the id of the first enabled entry with the URI, or
\* the zero values.
GetHeaderExtensionID(m, uri) ==
    LET exts == m.headerExtensions
        hits == { i \in 1..Len(exts) : exts[i].uri = uri /\ exts[i].ok }
    IN  IF hits = {} THEN [val |-> 0, ok |-> FALSE]
        ELSE [val |-> exts[Min(hits)].id, ok |-> TRUE]

\* A loop of RegisterDefaultCodecs over codecs: returns at the first error.
RECURSIVE RegisterCodecs(_, _, _, _)
RegisterCodecs(m, codecs, typ, i) ==
    IF i > Len(codecs) THEN [m |-> m, err |-> Nil]
    ELSE LET r == RegisterCodec(m, codecs[i], typ)
         IN  IF r.err # Nil THEN r ELSE RegisterCodecs(r.m, codecs, typ, i + 1)

\* A loop of RegisterDefaultCodecs over header extension URIs.
RECURSIVE RegisterHeaderExtensions(_, _, _, _)
RegisterHeaderExtensions(m, uris, typ, i) ==
    IF i > Len(uris) THEN [m |-> m, err |-> Nil]
    ELSE LET r == RegisterHeaderExtension(m, uris[i], typ)
         IN  IF r.err # Nil THEN r
             ELSE RegisterHeaderExtensions(r.m, uris, typ, i + 1)

RegisterDefaultCodecs(m) ==
    LET a == RegisterCodecs(m, DefaultAudioCodecs, RTPCodecTypeAudio, 1)
    IN  IF a.err # Nil THEN a ELSE
    LET b == RegisterHeaderExtensions(a.m, DefaultAudioExtensions, RTPCodecTypeAudio, 1)
    IN  IF b.err # Nil THEN b ELSE
    LET c == RegisterCodecs(b.m, DefaultVideoCodecs, RTPCodecTypeVideo, 1)
    IN  IF c.err # Nil THEN c ELSE
        RegisterHeaderExtensions(c.m, DefaultVideoExtensions, RTPCodecTypeVideo, 1)

\* The first codec of a catalog with the payload type; 0 when there is none.
FirstWithPayload(codecs, payloadType) ==
    LET hits == { i \in 1..Len(codecs) : codecs[i].PayloadType = payloadType }
    IN  IF hits = {} THEN 0 ELSE Min(hits)

\* getCodecByPayload as it would be if it scanned the audio catalog first.
getCodecByPayload_AudioFirst(m, payloadType) ==
    LET v == FirstWithPayload(m.videoCodecs, payloadType)
        a == FirstWithPayload(m.audioCodecs, payloadType)
    IN  IF a # 0 THEN [codec |-> m.audioCodecs[a], err |-> Nil]
        ELSE IF v # 0 THEN [codec |-> m.videoCodecs[v], err |-> Nil]
        ELSE [codec |-> [kind |-> "RTPCodecParameters{}"], err |-> ErrCodecNotFound]

\* getCodecByPayload: the video catalog, then the audio catalog.
getCodecByPayload(m, payloadType) ==
    LET v == FirstWithPayload(m.videoCodecs, payloadType)
        a == FirstWithPayload(m.audioCodecs, payloadType)
    IN  IF v # 0 THEN [codec |-> m.videoCodecs[v], err |-> Nil]
        ELSE IF a # 0 THEN [codec |-> m.audioCodecs[a], err |-> Nil]
        ELSE [codec |-> [kind |-> "RTPCodecParameters{}"], err |-> ErrCodecNotFound]

getCodecsByKind(m, kind) ==
    CASE kind = RTPCodecTypeAudio -> m.audioCodecs
      [] kind = RTPCodecTypeVideo -> m.videoCodecs
      [] OTHER -> <<>>

\* strings.EqualFold on strings held as sequences of characters.
UpperCase ==
    << "A", "B", "C", "D", "E", "F", "G", "H", "I", "J", "K", "L", "M",
       "N", "O", "P", "Q", "R", "S", "T", "U", "V", "W", "X", "Y", "Z" >>
LowerCase ==
    << "a", "b", "c", "d", "e", "f", "g", "h", "i", "j", "k", "l", "m",
       "n", "o", "p", "q", "r", "s", "t", "u", "v", "w", "x", "y", "z" >>

ToLower(ch) ==
    IF \E i \in 1..Len(UpperCase) : UpperCase[i] = ch
    THEN LowerCase[CHOOSE i \in 1..Len(UpperCase) : UpperCase[i] = ch]
    ELSE ch

EqualFold(s, t) ==
    /\ Len(s) = Len(t)
    /\ \A i \in 1..Len(s) : ToLower(s[i]) = ToLower(t[i])

audio == << "a", "u", "d", "i", "o" >>
video == << "v", "i", "d", "e", "o" >>

\* The switch as it would be if it compared the media name exactly.
UpdateFromMedia_CaseSensitive(m, media) ==
    CASE ~m.negotiatedAudio /\ media.Media = audio ->
            [m EXCEPT !.negotiatedAudio = TRUE]
      [] ~m.negotiatedVideo /\ media.Media = video ->
            [m EXCEPT !.negotiatedVideo = TRUE]
      [] OTHER -> m

\* The body of the loop of updateFromRemoteDescription for one media
\* section: the switch on the section's media name.
UpdateFromMedia(m, media) ==
    CASE ~m.negotiatedAudio /\ EqualFold(media.Media, audio) ->
            [m EXCEPT !.negotiatedAudio = TRUE]
      [] ~m.negotiatedVideo /\ EqualFold(media.Media, video) ->
            [m EXCEPT !.negotiatedVideo = TRUE]
      [] OTHER -> m

RECURSIVE UpdateLoop(_, _, _)
UpdateLoop(m, desc, i) ==
    IF i > Len(desc) THEN m
    ELSE UpdateLoop(UpdateFromMedia(m, desc[i]), desc, i + 1)

updateFromRemoteDescription(m, desc) ==
    [m |-> UpdateLoop(m, desc, 1), err |-> Nil]

negotiatedCodecsForType(m, typ) ==
    IF typ = RTPCodecTypeAudio THEN m.audioCodecs
    ELSE IF typ = RTPCodecTypeVideo THEN m.videoCodecs
    ELSE <<>>

-----------------------------------------------------------------------------
(* Inputs of the engine calls.                                             *)

\* The codecs handed to RegisterCodec: opus, and vp8 under the payload type
\* of opus.
CodecInputs ==
    { RTPCodecParameters(mimeTypeOpus, 48000, 2, "", <<>>, 111),
      RTPCodecParameters(mimeTypeVP8, 90000, 0, "", <<>>, 111) }

\* RTPCodecType values handed to the engine: audio, video and the zero value.
CodecTypes == {RTPCodecTypeAudio, RTPCodecTypeVideo, 0}

\* The URIs of the header extensions registered one at a time: one that the
\* defaults register for both kinds and two that they do not.
ExtensionURIs ==
    { "urn:ietf:params:rtp-hdrext:sdes:mid",
      "urn:ietf:params:rtp-hdrext:encrypt",
      "http://www.webrtc.org/experiments/rtp-hdrext/abs-capture-time" }

\* The payload types looked up.
PayloadTypes == {96, 111, 127}

\* One codec a media section advertises (an rtpmap line): the payload type
\* the remote asserts for a mime type, clock rate and channel count.
RTPMap(pt, mime, clockRate, channels) ==
    [PayloadType |-> pt, MimeType |-> mime, ClockRate |-> clockRate,
     Channels |-> channels]

\* sdp.MediaDescription: MediaName.Media and the codecs it advertises.
MediaSections ==
    { [Media |-> audio, rtpmap |-> <<RTPMap(111, mimeTypeOpus, 48000, 2)>>],
      [Media |-> << "V", "i", "d", "e", "o" >>,
       rtpmap |-> <<RTPMap(96, mimeTypeVP8, 90000, 0)>>],
      [Media |-> << "a", "p", "p", "l", "i", "c", "a", "t", "i", "o", "n" >>,
       rtpmap |-> <<>>] }

\* sdp.SessionDescription: its MediaDescriptions.
Descriptions ==
    UNION { [1..n -> MediaSections] : n \in 0..MaxSections }

-----------------------------------------------------------------------------
(* The calls on the engine.                                                *)

\* The record of an engine call: its name, its arguments, what it returned,
\* and the negotiated flags when it was made.
EngineCall(op, arg, err, result) ==
    [op |-> op, arg |-> arg, err |-> err, result |-> result,
     pre |-> [negotiatedAudio |-> negotiatedAudio,
              negotiatedVideo |-> negotiatedVideo]]

SetEngine(m) ==
    /\ negotiatedVideo' = m.negotiatedVideo
    /\ negotiatedAudio' = m.negotiatedAudio
    /\ videoCodecs' = m.videoCodecs
    /\ audioCodecs' = m.audioCodecs
    /\ headerExtensions' = m.headerExtensions

CodecCount == Len(audioCodecs) + Len(videoCodecs)

CallRegisterCodec(c, typ) ==
    /\ CodecCount < MaxCodecs
    /\ LET r == RegisterCodec(Engine, c, typ)
       IN  /\ SetEngine(r.m)
           /\ last' = EngineCall("RegisterCodec", [codec |-> c, typ |-> typ], r.err, <<>>)
    /\ UNCHANGED <<trackVars, updated>>
    /\ UNCHANGED concVars

CallRegisterDefaultCodecs ==
    /\ CodecCount < MaxCodecs
    /\ LET r == RegisterDefaultCodecs(Engine)
       IN  /\ SetEngine(r.m)
           /\ last' = EngineCall("RegisterDefaultCodecs", <<>>, r.err, <<>>)
    /\ UNCHANGED <<trackVars, updated>>
    /\ UNCHANGED concVars

CallGetCodecByPayload(pt) ==
    /\ LET r == getCodecByPayload(Engine, pt)
       IN  last' = EngineCall("getCodecByPayload", pt, r.err, r.codec)
    /\ UNCHANGED <<trackVars, engineVars>>
    /\ UNCHANGED concVars

CallGetCodecsByKind(kind) ==
    /\ last' = EngineCall("getCodecsByKind", kind, Nil, getCodecsByKind(Engine, kind))
    /\ UNCHANGED <<trackVars, engineVars>>
    /\ UNCHANGED concVars

CallUpdateFromRemoteDescription(desc) ==
    /\ LET r == updateFromRemoteDescription(Engine, desc)
       IN  /\ SetEngine(r.m)
           /\ last' = EngineCall("updateFromRemoteDescription", desc, r.err, <<>>)
    /\ updated' = TRUE
    /\ UNCHANGED trackVars
    /\ UNCHANGED concVars

CallNegotiatedCodecsForType(typ) ==
    /\ last' = EngineCall("negotiatedCodecsForType", typ, Nil,
                          negotiatedCodecsForType(Engine, typ))
    /\ UNCHANGED <<trackVars, engineVars>>
    /\ UNCHANGED concVars

NextEngine ==
    \/ \E c \in CodecInputs, typ \in CodecTypes : CallRegisterCodec(c, typ)
    \/ CallRegisterDefaultCodecs
    \/ \E pt \in PayloadTypes : CallGetCodecByPayload(pt)
    \/ \E kind \in CodecTypes : CallGetCodecsByKind(kind)
    \/ \E desc \in Descriptions : CallUpdateFromRemoteDescription(desc)
    \/ \E typ \in CodecTypes : CallNegotiatedCodecsForType(typ)

CallRegisterHeaderExtension(uri, typ) ==
    /\ LET r == RegisterHeaderExtension(Engine, uri, typ)
       IN  /\ SetEngine(r.m)
           /\ last' = EngineCall("RegisterHeaderExtension",
                                 [uri |-> uri, typ |-> typ], r.err, <<>>)
    /\ UNCHANGED <<trackVars, updated>>
    /\ UNCHANGED concVars

CallGetHeaderExtensionID(uri) ==
    /\ last' = EngineCall("GetHeaderExtensionID", uri, Nil,
                          GetHeaderExtensionID(Engine, uri))
    /\ UNCHANGED <<trackVars, engineVars>>
    /\ UNCHANGED concVars

\* The calls on the header extensions of an engine.
NextExt ==
    \/ \E uri \in ExtensionURIs, typ \in CodecTypes :
          CallRegisterHeaderExtension(uri, typ)
    \/ \E uri \in ExtensionURIs : CallGetHeaderExtensionID(uri)
    \/ CallRegisterDefaultCodecs

-----------------------------------------------------------------------------
(* Specifications.                                                         *)

\* MediaEngine{}
EngineInit ==
    /\ negotiatedVideo = ZeroEngine.negotiatedVideo
    /\ negotiatedAudio = ZeroEngine.negotiatedAudio
    /\ videoCodecs = ZeroEngine.videoCodecs
    /\ audioCodecs = ZeroEngine.audioCodecs
    /\ headerExtensions = ZeroEngine.headerExtensions
    /\ updated = FALSE

\* A track just constructed, beside an engine not in use.
InitTrack ==
    /\ TrackInit
    /\ EngineInit
    /\ ConcInit
    /\ last = [op |-> "new"]

\* A track just constructed, to be called from the goroutines: a raw-packet
\* track of vp8, or a sample track of either codec.
InitConc ==
    /\ InitTrack
    /\ flavour = StaticRTP => codec.MimeType = mimeTypeVP8

\* An engine just constructed; no track call is made, the track variables
\* stay those of one constructed track.
InitEngine ==
    /\ flavour = StaticRTP
    /\ codec = [MimeType |-> mimeTypeVP8, ClockRate |-> 90000]
    /\ bindings = <<>>
    /\ packetizer = NoPacketizer
    /\ EngineInit
    /\ ConcInit
    /\ last = [op |-> "new"]

SpecTrack  == InitTrack /\ [][NextTrack]_vars
SpecEngine == InitEngine /\ [][NextEngine]_vars
SpecExt    == InitEngine /\ [][NextExt]_vars
SpecConc   == InitConc /\ [][NextConc]_vars

-----------------------------------------------------------------------------
(* Properties of the track.                                                *)

\* The errors of the bindings of bs whose write stream is in fails, in the
\* order of the bindings.
FailedErrs(bs, fails) ==
    SelectSeq([i \in 1..Len(bs) |->
                  IF bs[i].writeStream \in fails
                  THEN SinkErr(bs[i].writeStream) ELSE Nil],
              LAMBDA e : e # Nil)

\* C1: WriteRTP on a raw-packet track hands the packet to the write stream
\* of every binding of the list exactly once, in the order of the list, each
\* time with the header's SSRC and payload type set to that binding's own,
\* whichever of the write streams fail.
C1_WriteRTPReachesEveryBinding ==
    (flavour = StaticRTP /\ last.op = "WriteRTP") =>
        /\ Len(last.log) = Len(bindings)
        /\ \A i \in 1..Len(bindings) :
              /\ last.log[i].writeStream = bindings[i].writeStream
              /\ last.log[i].header.SSRC = bindings[i].ssrc
              /\ last.log[i].header.PayloadType = bindings[i].payloadType
              /\ last.log[i].payload = last.arg.Payload

\* C1 witness: a WriteRTP over three bindings, of two connections and two
\* payload types, whose first write failed and whose last one succeeded.
C1_Witness ==
    /\ flavour = StaticRTP
    /\ last.op = "WriteRTP"
    /\ Len(bindings) = 3
    /\ bindings[1].ssrc # bindings[3].ssrc
    /\ bindings[1].payloadType # bindings[2].payloadType
    /\ last.log[1].err # Nil
    /\ last.log[3].err = Nil

\* C2: WriteRTP returns nil exactly when no binding's write failed (so also
\* for an empty list), and otherwise one aggregate error whose members are
\* the errors of the failed bindings, one for each, and no other.
C2_WriteRTPAggregatesErrors ==
    (flavour = StaticRTP /\ last.op = "WriteRTP") =>
        LET failed == { i \in 1..Len(bindings) :
                          bindings[i].writeStream \in last.fails }
        IN  /\ (last.err = Nil) <=> (failed = {})
            /\ failed # {} =>
                  /\ last.err.kind = "multiError"
                  /\ last.err.errs = FailedErrs(bindings, last.fails)
                  /\ Len(last.err.errs) = Cardinality(failed)

\* C2 witness: a WriteRTP over three bindings of which two failed and one
\* succeeded.
C2_Witness ==
    /\ flavour = StaticRTP
    /\ last.op = "WriteRTP"
    /\ Len(bindings) = 3
    /\ last.err # Nil
    /\ Len(last.err.errs) = 2
    /\ \E i \in 1..3 : last.log[i].err = Nil

\* C3: a successful Bind on a sample track grows the wrapped track's binding
\* list by exactly one binding.
C3_SampleBindAddsOneBinding ==
    (flavour = StaticSample /\ last.op = "Bind" /\ last.err = Nil) =>
        Len(bindings) = last.size + 1

\* C4: on either flavour of track, an Unbind that directly follows a
\* successful Bind with the same context succeeds and leaves the binding
\* list as long as it was before the Bind.
C4_BindThenUnbindRestoresSize ==
    [][ ( /\ last.op = "Bind"
          /\ last.err = Nil
          /\ last'.op = "Unbind"
          /\ last'.arg = last.arg )
        => ( /\ last'.err = Nil
             /\ Len(bindings') = last.size ) ]_vars

\* C5: the binding list never holds two bindings with the same write stream.
C5_OneBindingPerWriteStream ==
    \A i, j \in 1..Len(bindings) :
        i # j => bindings[i].writeStream # bindings[j].writeStream

\* C13: a sample track is constructed without a packetizer, and the
\* packetizer goes from nil to non-nil only in a Bind that returns nil, so
\* it is non-nil only after a successful Bind; a WriteSample made while it
\* is nil returns nil, hands nothing to any write stream and changes nothing
\* of the track.
C13_PacketizerOnlyAfterBind ==
    [][ flavour = StaticSample =>
          /\ last.op = "new" => packetizer = NoPacketizer
          /\ (packetizer = NoPacketizer /\ packetizer' # NoPacketizer) =>
                (last'.op = "Bind" /\ last'.err = Nil)
          /\ (last'.op = "WriteSample" /\ packetizer = NoPacketizer) =>
                /\ last'.err = Nil
                /\ last'.log = <<>>
                /\ UNCHANGED trackVars ]_vars

\* C13 witness: a WriteSample of a sample that fragments into packets, on a
\* sample track that has bindings and no packetizer.
C13_Witness ==
    /\ flavour = StaticSample
    /\ last.op = "WriteSample"
    /\ last.arg.fragments > 0
    /\ packetizer = NoPacketizer
    /\ Len(bindings) > 0
    /\ last.log = <<>>

\* The context t offers a codec with the mime type of the track's codec.
Offers(t) == \E i \in 1..Len(t.codecs) : t.codecs[i].MimeType = codec.MimeType

\* C14 as claimed: every Bind on a sample track whose codec has no payloader
\* returns ErrNoPayloaderForCodec and leaves the packetizer as it was.
C14_NoPayloaderBindFails ==
    [][ ( /\ flavour = StaticSample
          /\ last'.op = "Bind"
          /\ PayloaderFor(codec.MimeType) = Nil )
        => ( /\ last'.err = ErrNoPayloaderForCodec
             /\ packetizer' = packetizer ) ]_vars

\* C14 as amended: a Bind on a sample track whose codec has no payloader
\* returns ErrNoPayloaderForCodec when the context offers the track's mime
\* type and ErrUnsupportedCodec, the error of the wrapped Bind, when it does
\* not; either way the packetizer stays as it was.
C14_NoPayloaderBindFailsWhenOffered ==
    [][ ( /\ flavour = StaticSample
          /\ last'.op = "Bind"
          /\ PayloaderFor(codec.MimeType) = Nil )
        => ( /\ last'.err = IF Offers(last'.arg) THEN ErrNoPayloaderForCodec
                            ELSE ErrUnsupportedCodec
             /\ packetizer' = packetizer ) ]_vars

\* C14 witness: a Bind on a sample track that returned
\* ErrNoPayloaderForCodec.
C14_Witness ==
    /\ flavour = StaticSample
    /\ last.op = "Bind"
    /\ PayloaderFor(codec.MimeType) = Nil
    /\ Offers(last.arg)
    /\ last.err = ErrNoPayloaderForCodec
    /\ packetizer = NoPacketizer

\* C15: a Bind on a raw-packet track whose context has a codec with the
\* track's mime type returns nil and adds, at the end of the list, one
\* binding with the context's SSRC, the payload type of the first such codec
\* of the context and the context's write stream; a Bind whose context has
\* none returns ErrUnsupportedCodec and adds nothing; the bindings held
\* before the call are held after it, unaltered and in the same places.
C15_BindAppendsFirstMatch ==
    [][ (flavour = StaticRTP /\ last'.op = "Bind") =>
          LET t == last'.arg
              n == Len(bindings)
          IN  /\ \A i \in 1..n : bindings'[i] = bindings[i]
              /\ Offers(t) =>
                    /\ last'.err = Nil
                    /\ Len(bindings') = n + 1
                    /\ bindings'[n + 1].ssrc = t.ssrc
                    /\ bindings'[n + 1].writeStream = t.writeStream
                    /\ \E i \in 1..Len(t.codecs) :
                          /\ t.codecs[i].MimeType = codec.MimeType
                          /\ \A j \in 1..(i - 1) : t.codecs[j].MimeType # codec.MimeType
                          /\ bindings'[n + 1].payloadType = t.codecs[i].PayloadType
              /\ ~Offers(t) =>
                    /\ last'.err = ErrUnsupportedCodec
                    /\ Len(bindings') = n ]_vars

\* C15 witness: a Bind, on a list that held a binding, with a context that
\* has the track's mime type twice under two payload types.
C15_Witness ==
    /\ flavour = StaticRTP
    /\ last.op = "Bind"
    /\ last.err = Nil
    /\ last.size >= 1
    /\ Len(bindings) = last.size + 1
    /\ \E i, j \in 1..Len(last.arg.codecs) :
          /\ i < j
          /\ last.arg.codecs[i].MimeType = codec.MimeType
          /\ last.arg.codecs[j].MimeType = codec.MimeType
          /\ last.arg.codecs[i].PayloadType # last.arg.codecs[j].PayloadType
          /\ bindings[Len(bindings)].payloadType = last.arg.codecs[i].PayloadType

\* The packets of a WriteSample call for which the write stream of some
\* binding failed.
FailedPackets ==
    { k \in 1..last.arg.fragments :
        \E i \in 1..Len(bindings) : bindings[i].writeStream \in last.fails[k] }

\* C16: a WriteSample on a sample track with a packetizer hands every
\* packet of the sample, in order, to the write stream of every binding,
\* whichever writes fail; it returns nil exactly when no write of any packet
\* failed, and otherwise one aggregate error whose members are the WriteRTP
\* errors of the packets with a failed write, one for each, in order.
C16_WriteSampleWritesEveryPacket ==
    ( /\ flavour = StaticSample
      /\ last.op = "WriteSample"
      /\ packetizer # NoPacketizer ) =>
        LET n == last.arg.fragments
            L == Len(bindings)
        IN  /\ Len(last.log) = n * L
            /\ \A k \in 1..n : \A i \in 1..L :
                  LET w == last.log[(k - 1) * L + i]
                  IN  /\ w.payload = k
                      /\ w.writeStream = bindings[i].writeStream
                      /\ w.header.SSRC = bindings[i].ssrc
                      /\ w.header.PayloadType = bindings[i].payloadType
            /\ (last.err = Nil) <=> (FailedPackets = {})
            /\ FailedPackets # {} =>
                  /\ last.err.kind = "multiError"
                  /\ Len(last.err.errs) = Cardinality(FailedPackets)
                  /\ last.err.errs =
                        SelectSeq([k \in 1..n |->
                                      FlattenErrs(FailedErrs(bindings, last.fails[k]))],
                                  LAMBDA e : e # Nil)

\* C16 witness: a WriteSample of two packets of which the first had a failed
\* write and the second had none.
C16_Witness ==
    /\ flavour = StaticSample
    /\ last.op = "WriteSample"
    /\ packetizer # NoPacketizer
    /\ last.arg.fragments = 2
    /\ Len(bindings) > 0
    /\ FailedPackets = {1}
    /\ Len(last.log) = 2 * Len(bindings)

\* The number of places of the list bs that hold the binding b.
Count(bs, b) == Cardinality({ i \in 1..Len(bs) : bs[i] = b })

\* C18: an Unbind on either flavour of track, when some binding has the
\* context's write stream, returns nil and removes one binding with that
\* write stream, every other binding being held as often as before; when
\* none has it, it returns ErrUnbindFailed and leaves the list as it was.
C18_UnbindRemovesOneBinding ==
    [][ last'.op = "Unbind" =>
          LET w == last'.arg.writeStream
          IN  IF \E i \in 1..Len(bindings) : bindings[i].writeStream = w
              THEN /\ last'.err = Nil
                   /\ Len(bindings') = Len(bindings) - 1
                   /\ \E i \in 1..Len(bindings) :
                         /\ bindings[i].writeStream = w
                         /\ \A j \in 1..Len(bindings) :
                               Count(bindings', bindings[j]) =
                                  Count(bindings, bindings[j])
                                     - (IF bindings[j] = bindings[i] THEN 1 ELSE 0)
              ELSE /\ last'.err = ErrUnbindFailed
                   /\ bindings' = bindings ]_vars

\* C18 witness: an Unbind that took the first of three bindings, after
\* which the list holds the two others, the last one of them first.
C18_Witness ==
    /\ flavour = StaticRTP
    /\ last.op = "Unbind"
    /\ last.err = Nil
    /\ last.size = 3
    /\ Len(bindings) = 2
    /\ \A i \in 1..2 : bindings[i].writeStream # last.arg.writeStream
    /\ bindings[1] # bindings[2]

\* C21: a Bind that returns an error, on either flavour of track, leaves
\* the binding list as it was before the call.
C21_FailedBindLeavesListUnchanged ==
    [][ (last'.op = "Bind" /\ last'.err # Nil) => bindings' = bindings ]_vars

-----------------------------------------------------------------------------
(* Properties of the engine.                                               *)

\* s spells the word whose lower-case and upper-case forms are lo and up, in
\* any mix of cases.
Spells(s, lo, up) ==
    /\ Len(s) = Len(lo)
    /\ \A i \in 1..Len(s) : s[i] \in {lo[i], up[i]}

IsAudioSection(media) == Spells(media.Media, audio, << "A", "U", "D", "I", "O" >>)
IsVideoSection(media) == Spells(media.Media, video, << "V", "I", "D", "E", "O" >>)

\* The last call was updateFromRemoteDescription on an engine whose
\* negotiated flags were both false.
UpdatedFresh ==
    /\ last.op = "updateFromRemoteDescription"
    /\ ~last.pre.negotiatedAudio
    /\ ~last.pre.negotiatedVideo

\* The local entry c is the codec the remote advertises as r.
MatchesRemote(c, r) ==
    /\ c.MimeType = r.MimeType
    /\ c.ClockRate = r.ClockRate
    /\ c.Channels = r.Channels

\* Every entry of catalog that a codec advertised by section matches is
\* negotiated under the payload type the remote asserts, and the lookup of
\* that payload type returns a negotiated entry.
NegotiatedBy(catalog, section) ==
    \A n \in 1..Len(section.rtpmap) : \A i \in 1..Len(catalog) :
        MatchesRemote(catalog[i], section.rtpmap[n]) =>
            /\ catalog[i].negotiated
            /\ catalog[i].PayloadType = section.rtpmap[n].PayloadType
            /\ getCodecByPayload(Engine, section.rtpmap[n].PayloadType).err = Nil
            /\ getCodecByPayload(Engine, section.rtpmap[n].PayloadType).codec.negotiated

\* C6: after updateFromRemoteDescription, a local entry matched by a codec
\* that the first audio (video) section of the description advertises has
\* negotiated = true and the payload type the remote asserts, and the lookup
\* of that payload type returns an entry with negotiated = true.
C6_UpdateNegotiatesMatchedCodecs ==
    UpdatedFresh =>
        \A k \in 1..Len(last.arg) :
            /\ ( /\ IsAudioSection(last.arg[k])
                 /\ \A j \in 1..(k - 1) : ~IsAudioSection(last.arg[j]) )
               => NegotiatedBy(audioCodecs, last.arg[k])
            /\ ( /\ IsVideoSection(last.arg[k])
                 /\ \A j \in 1..(k - 1) : ~IsVideoSection(last.arg[j]) )
               => NegotiatedBy(videoCodecs, last.arg[k])

\* C7: negotiatedCodecsForType returns the whole catalog of the kind while
\* no update call has been made, and after one only the entries of the kind
\* with negotiated = true.
C7_NegotiatedCodecsAreFiltered ==
    ( /\ last.op = "negotiatedCodecsForType"
      /\ last.arg \in {RTPCodecTypeAudio, RTPCodecTypeVideo} ) =>
        LET catalog == getCodecsByKind(Engine, last.arg)
        IN  last.result = IF updated
                          THEN SelectSeq(catalog, LAMBDA c : c.negotiated)
                          ELSE catalog

\* C8: after updateFromRemoteDescription on an engine whose flags were
\* false, negotiatedAudio is true exactly when some section's media type
\* spells "audio" in any case, and negotiatedVideo exactly when one spells
\* "video"; with no section both stay false.
C8_FlagsFollowSectionKinds ==
    UpdatedFresh =>
        /\ negotiatedAudio <=> \E k \in 1..Len(last.arg) : IsAudioSection(last.arg[k])
        /\ negotiatedVideo <=> \E k \in 1..Len(last.arg) : IsVideoSection(last.arg[k])
        /\ last.arg = <<>> => (~negotiatedAudio /\ ~negotiatedVideo)

\* C8 witness: an update with two sections, the first a video section not
\* spelled in lower case and none an audio section.
C8_Witness ==
    /\ UpdatedFresh
    /\ Len(last.arg) = 2
    /\ IsVideoSection(last.arg[1])
    /\ last.arg[1].Media # video
    /\ negotiatedVideo
    /\ ~negotiatedAudio

\* C9: no two entries of the audio catalog share a payload type, and no two
\* entries of the video catalog do.
C9_PayloadTypesUniquePerKind ==
    /\ \A i, j \in 1..Len(audioCodecs) :
          i # j => audioCodecs[i].PayloadType # audioCodecs[j].PayloadType
    /\ \A i, j \in 1..Len(videoCodecs) :
          i # j => videoCodecs[i].PayloadType # videoCodecs[j].PayloadType

\* C10 as claimed, in an engine whose payload types are unique within each
\* catalog: for every entry of either catalog, the lookup of a payload type
\* returns that entry exactly when the payload type is the entry's, and
\* fails with ErrCodecNotFound exactly when no entry has it.
C10_LookupReturnsEveryCodecWithPayload ==
    (last.op = "getCodecByPayload" /\ C9_PayloadTypesUniquePerKind) =>
        LET all == videoCodecs \o audioCodecs
        IN  /\ \A i \in 1..Len(all) :
                  (last.err = Nil /\ last.result = all[i])
                      <=> (all[i].PayloadType = last.arg)
            /\ (last.err = ErrCodecNotFound)
                  <=> (\A i \in 1..Len(all) : all[i].PayloadType # last.arg)

\* C10 as amended: the lookup of a payload type returns the first entry with
\* that payload type of the video catalog followed by the audio catalog,
\* fails with ErrCodecNotFound exactly when no entry has it, and changes
\* nothing of the engine.
C10_LookupReturnsFirstWithPayload ==
    [][ last'.op = "getCodecByPayload" =>
          LET all  == videoCodecs' \o audioCodecs'
              hits == { i \in 1..Len(all) : all[i].PayloadType = last'.arg }
          IN  /\ UNCHANGED engineVars
              /\ (last'.err = ErrCodecNotFound) <=> (hits = {})
              /\ hits # {} =>
                    /\ last'.err = Nil
                    /\ last'.result = all[Min(hits)] ]_vars

\* C10 witness: a lookup of a payload type held by an entry of the video
\* catalog and by a different entry of the audio catalog.
C10_Witness ==
    /\ last.op = "getCodecByPayload"
    /\ last.err = Nil
    /\ \E i \in 1..Len(videoCodecs), j \in 1..Len(audioCodecs) :
          /\ videoCodecs[i].PayloadType = last.arg
          /\ audioCodecs[j].PayloadType = last.arg
          /\ videoCodecs[i] # audioCodecs[j]

\* new is old with the one entry c, not negotiated, added at its end.
AppendedTo(old, new, c) ==
    /\ Len(new) = Len(old) + 1
    /\ new[Len(new)] = c
    /\ ~new[Len(new)].negotiated
    /\ \A i \in 1..Len(old) : new[i] = old[i]

\* C12: RegisterCodec with a kind that is neither audio nor video returns
\* ErrUnknownType and leaves both catalogs as they were; with the kind audio
\* (video) it returns nil, adds the codec as one entry that is not
\* negotiated at the end of the audio (video) catalog and leaves the earlier
\* entries and the other catalog as they were; getCodecsByKind returns the
\* catalog of the kind in that order and changes nothing.
C12_RegisterCodecAppendsInOrder ==
    [][ /\ last'.op = "RegisterCodec" =>
             LET c   == last'.arg.codec
                 typ == last'.arg.typ
             IN  /\ typ = RTPCodecTypeAudio =>
                       /\ last'.err = Nil
                       /\ AppendedTo(audioCodecs, audioCodecs', c)
                       /\ videoCodecs' = videoCodecs
                 /\ typ = RTPCodecTypeVideo =>
                       /\ last'.err = Nil
                       /\ AppendedTo(videoCodecs, videoCodecs', c)
                       /\ audioCodecs' = audioCodecs
                 /\ typ \notin {RTPCodecTypeAudio, RTPCodecTypeVideo} =>
                       /\ last'.err = ErrUnknownType
                       /\ audioCodecs' = audioCodecs
                       /\ videoCodecs' = videoCodecs
        /\ last'.op = "getCodecsByKind" =>
             /\ UNCHANGED engineVars
             /\ last'.arg = RTPCodecTypeAudio => last'.result = audioCodecs
             /\ last'.arg = RTPCodecTypeVideo => last'.result = videoCodecs ]_vars

\* C12 witness: a video codec registered into a video catalog that held a
\* different codec, which is still the first entry.
C12_Witness ==
    /\ last.op = "RegisterCodec"
    /\ last.arg.typ = RTPCodecTypeVideo
    /\ last.err = Nil
    /\ Len(videoCodecs) = 2
    /\ videoCodecs[2] = last.arg.codec
    /\ videoCodecs[1] # videoCodecs[2]

-----------------------------------------------------------------------------
(* Properties of the header extensions.                                    *)

\* The indices of the entries of a catalog of header extensions with a URI.
EntriesOf(exts, uri) == { i \in 1..Len(exts) : exts[i].uri = uri }

\* C11: a RegisterHeaderExtension call leaves the catalog with exactly one
\* entry for its URI and no URI held twice; a URI not yet in the catalog
\* gets a new entry at the end whose id is the length the catalog had, a
\* URI in the catalog adds no entry; the URI and the id of every earlier
\* entry stay as they were and the ids are pairwise distinct; the flag of
\* the kind registered is set and no flag set earlier is cleared, so one URI
\* registered for audio and for video is one entry with both flags.
C11_OneEntryPerURIWithStableId ==
    [][ last'.op = "RegisterHeaderExtension" =>
          LET old == headerExtensions
              new == headerExtensions'
              uri == last'.arg.uri
              typ == last'.arg.typ
          IN  /\ last'.err = Nil
              /\ Cardinality(EntriesOf(new, uri)) = 1
              /\ \A i, j \in 1..Len(new) :
                    i # j => (new[i].uri # new[j].uri /\ new[i].id # new[j].id)
              /\ Len(new) = IF EntriesOf(old, uri) = {} THEN Len(old) + 1 ELSE Len(old)
              /\ EntriesOf(old, uri) = {} => new[Len(new)].id = Len(old)
              /\ \A i \in 1..Len(old) :
                    /\ new[i].uri = old[i].uri
                    /\ new[i].id = old[i].id
                    /\ old[i].isAudio => new[i].isAudio
                    /\ old[i].isVideo => new[i].isVideo
              /\ \A i \in EntriesOf(new, uri) :
                    /\ typ = RTPCodecTypeAudio => new[i].isAudio
                    /\ typ = RTPCodecTypeVideo => new[i].isVideo ]_vars

\* C11 witness: a URI registered again, for its second kind, while a URI
\* registered after it is in the catalog: its entry is not the last one,
\* has both flags and an id other than the last index.
C11_Witness ==
    /\ last.op = "RegisterHeaderExtension"
    /\ \E i \in 1..Len(headerExtensions) :
          /\ headerExtensions[i].uri = last.arg.uri
          /\ i < Len(headerExtensions)
          /\ headerExtensions[i].isAudio
          /\ headerExtensions[i].isVideo
          /\ headerExtensions[i].id = i - 1

-----------------------------------------------------------------------------
(* Properties of calls that overlap.                                       *)

\* The binding a successful Bind with the context t appends.
BindingOf(t) == TrackLocalStaticRTP_Bind(<<>>, codec, t).bindings[1]

\* C17: when the two goroutines each called Bind on a raw-packet track,
\* with contexts of different write streams, and both calls returned nil,
\* the list holds every binding as often as it did before the two calls,
\* and the two new bindings once more each.
C17_NoAppendLost ==
    ( /\ phase = "race"
      /\ flavour = StaticRTP
      /\ \A g \in Procs :
            procs[g].pc = "done" /\ procs[g].op = "Bind" /\ procs[g].err = Nil
      /\ \A g, h \in Procs :
            g # h => procs[g].arg.writeStream # procs[h].arg.writeStream )
    => \A b \in Range(before.bindings) \cup { BindingOf(procs[g].arg) : g \in Procs } :
          Count(bindings, b) =
             Count(before.bindings, b)
                + Cardinality({ g \in Procs : BindingOf(procs[g].arg) = b })

\* The writes of the call of r that handed a packet to the write stream of
\* the binding b under b's SSRC and payload type.
WritesTo(r, b) ==
    { j \in 1..Len(r.log) :
        /\ r.log[j].writeStream = b.writeStream
        /\ r.log[j].header.SSRC = b.ssrc
        /\ r.log[j].header.PayloadType = b.payloadType }

\* C19: when a WriteRTP on a raw-packet track has returned, and the other
\* goroutine made no call or called Bind or Unbind, every binding that was
\* in the list once before the calls, that was in the list in every state
\* from the call of WriteRTP to its return, and whose write stream is not
\* the one the other goroutine binds or unbinds, was written exactly once
\* by the WriteRTP, under its own SSRC and payload type.
C19_StableBindingsWrittenOnce ==
    \A g \in Procs :
        ( /\ phase = "race"
          /\ flavour = StaticRTP
          /\ procs[g].pc = "done"
          /\ procs[g].op = "WriteRTP"
          /\ \A h \in Procs \ {g} : procs[h].op \in {"none", "Bind", "Unbind"} )
        => \A b \in stable[g] :
              ( /\ Count(before.bindings, b) = 1
                /\ \A h \in Procs \ {g} :
                      procs[h].op # "none" => procs[h].arg.writeStream # b.writeStream )
              => Cardinality(WritesTo(procs[g], b)) = 1

\* The next step of the call of g, whichever it is, for a WriteSample.
WriteSample_step(g) ==
    \/ WriteSample_load(g)
    \/ WriteSample_packetize(g)
    \/ WriteRTP_range(g)
    \/ WriteRTP_iterate(g)

\* C20: a WriteSample call that has loaded the packetizer slot holds what
\* the slot held before the calls or what the Bind of the other goroutine
\* stored; its packets are the ones that packetizer makes of the sample,
\* whatever the slot holds by then, and every packet it hands to a write
\* stream is one of them; and whatever the other goroutine is doing, the
\* call can take its next step.
C20_WriteSampleUsesOnePacketizer ==
    \A g \in Procs :
        LET r == procs[g]
        IN  (flavour = StaticSample /\ r.op = "WriteSample") =>
              /\ r.pc # "load" =>
                    r.p \in {before.packetizer}
                            \cup { procs[h].p : h \in { x \in Procs \ {g} :
                                                         procs[x].op = "Bind" } }
              /\ (r.pc \in {"range", "iterate"} \/ (r.pc = "done" /\ r.p # NoPacketizer))
                    => r.packets = Packetize(r.p, r.arg)
              /\ \A j \in 1..Len(r.log) :
                    \E k \in 1..r.arg.fragments :
                        /\ r.log[j].payload = Packetize(r.p, r.arg)[k].Payload
                        /\ r.log[j].header.SequenceNumber =
                              Packetize(r.p, r.arg)[k].Header.SequenceNumber
              /\ Running(g) => ENABLED WriteSample_step(g)

\* C20 witness: a WriteSample that returned after it wrote packets of the
\* packetizer held before the calls, while the slot holds another one that
\* the Bind of the other goroutine stored.
C20_Witness ==
    \E g \in Procs, h \in Procs :
        /\ flavour = StaticSample
        /\ procs[g].op = "WriteSample"
        /\ procs[g].pc = "done"
        /\ Len(procs[g].log) > 0
        /\ procs[g].p = before.packetizer
        /\ procs[h].op = "Bind"
        /\ packetizer = procs[h].p
        /\ packetizer # procs[g].p

====
